---- MODULE Spec2Model ----
(***************************************************************************)
(* Model of the Summary sidebar component                                  *)
(* (src/app/global/_components/Sidebar/General/DropDowns/Summary.tsx):     *)
(* the UPDATE_DATA reducer, the lodash-debounced dispatch, the publish     *)
(* effect that calls setSummary and the trigger effect with its cleanup.   *)
(* The chat component (src/unnamed/part_000, AIcontainer) is modelled in   *)
(* the same module: its messages, its storage entry and the handleSubmit   *)
(* calls in flight.                                                        *)
(*                                                                         *)
(* One step of the model is one React commit: a store change (or a timer   *)
(* callback) together with the re-render and the effects it causes, which  *)
(* React runs to completion before any other macrotask.                    *)
(*                                                                         *)
(* Optional values (a?: T, null, undefined) are modelled as sequences of   *)
(* length at most one: None is absent, Some(v) is present.                 *)
(* Indexability scores are integers in units of 1/10000 (0.5 is 5000).     *)
(***************************************************************************)
EXTENDS Integers, Sequences, FiniteSets, TLC

\* ---------------------------------------------------------------- bounds
MaxLen == 2
MaxSignals == 2
MaxSubmits == 2
TickStep == 150

\* ------------------------------------------------------- program constants
wait == 300
Half == 5000

\* ---------------------------------------------------------- optional values
None == <<>>
Some(v) == <<v>>
IsSome(o) == Len(o) > 0
Get(o) == o[1]

Min(a, b) == IF a < b THEN a ELSE b

\* ------------------------------------------------------------ CrawlDataItem
Links(ls) == Some([links |-> ls])
Item(int, ext, idx) == Some([anchor_links |-> Some([internal |-> int, external |-> ext]), indexability |-> idx])
Score(x) == Some([indexability |-> x])

ItemPool ==
  { None,
    Item(Links(Some(<<"/a", "/b">>)), None, Score(Some(Half))),
    Item(Links(None), Links(Some(<<"/c", "/a", "/c">>)), Score(Some(Half + 1))) }

RECURSIVE SeqsUpTo(_, _)
SeqsUpTo(S, n) ==
  IF n = 0 THEN { <<>> }
  ELSE LET shorter == SeqsUpTo(S, n - 1)
       IN  shorter \cup { Append(s, x) : s \in { t \in shorter : Len(t) = n - 1 }, x \in S }

Snapshots == SeqsUpTo(ItemPool, MaxLen)
Stores == { None } \cup { Some(s) : s \in Snapshots }

\* ------------------------------------------------------------------ reducer
initialState == [internalLinks |-> <<>>, externalLinks |-> <<>>, totalIndexablePages |-> 0, isProcessing |-> FALSE]

InSeq(x, s) == \E i \in 1..Len(s) : s[i] = x

SetAddAlways(set, x) == Append(set, x)

\* Set.prototype.add on an insertion-ordered set
SetAdd(set, x) == IF InSeq(x, set) THEN set ELSE Append(set, x)

RECURSIVE AddAll(_, _)
AddAll(set, ls) == IF ls = <<>> THEN set ELSE AddAll(SetAdd(set, Head(ls)), Tail(ls))

\* new Set(array)
NewSet(arr) == AddAll(<<>>, arr)

\* item?.anchor_links?.internal?.links / item?.anchor_links?.external?.links
InternalLinksOf(item) ==
  IF ~IsSome(item) THEN None
  ELSE IF ~IsSome(Get(item).anchor_links) THEN None
  ELSE IF ~IsSome(Get(Get(item).anchor_links).internal) THEN None
  ELSE Get(Get(Get(item).anchor_links).internal).links

ExternalLinksOf(item) ==
  IF ~IsSome(item) THEN None
  ELSE IF ~IsSome(Get(item).anchor_links) THEN None
  ELSE IF ~IsSome(Get(Get(item).anchor_links).external) THEN None
  ELSE Get(Get(Get(item).anchor_links).external).links

\* item?.indexability?.indexability
IndexabilityOf(item) ==
  IF ~IsSome(item) THEN None
  ELSE IF ~IsSome(Get(item).indexability) THEN None
  ELSE Get(Get(item).indexability).indexability

\* (x || 0)
OrZero(o) == IF IsSome(o) /\ Get(o) # 0 THEN Get(o) ELSE 0

IsIndexableGe(item) == OrZero(IndexabilityOf(item)) >= Half
IsIndexable(item) == OrZero(IndexabilityOf(item)) > Half

\* links?.forEach((link) => set.add(link))
ForEachAdd(set, optLinks) == IF IsSome(optLinks) THEN AddAll(set, Get(optLinks)) ELSE set

\* one iteration of the for..of loop over action.payload
LoopBody(acc, item) ==
  [internalLinksSet |-> ForEachAdd(acc.internalLinksSet, InternalLinksOf(item)),
   externalLinksSet |-> ForEachAdd(acc.externalLinksSet, ExternalLinksOf(item)),
   totalIndexablePages |-> IF IsIndexable(item) THEN acc.totalIndexablePages + 1 ELSE acc.totalIndexablePages]

RECURSIVE LoopStopsAtNull(_, _)
LoopStopsAtNull(acc, payload) ==
  IF payload = <<>> \/ ~IsSome(Head(payload)) THEN acc
  ELSE LoopStopsAtNull(LoopBody(acc, Head(payload)), Tail(payload))

RECURSIVE Loop(_, _)
Loop(acc, payload) == IF payload = <<>> THEN acc ELSE Loop(LoopBody(acc, Head(payload)), Tail(payload))

UpdateData(payload) == [type |-> "UPDATE_DATA", payload |-> payload]

reducerForgetful(state, action) ==
  IF action.type = "UPDATE_DATA"
  THEN LET acc == Loop([internalLinksSet |-> <<>>, externalLinksSet |-> <<>>, totalIndexablePages |-> 0], action.payload)
       IN  [internalLinks |-> acc.internalLinksSet, externalLinks |-> acc.externalLinksSet,
            totalIndexablePages |-> acc.totalIndexablePages, isProcessing |-> FALSE]
  ELSE state

reducerStillProcessing(state, action) ==
  IF action.type = "UPDATE_DATA"
  THEN LET acc == Loop([internalLinksSet |-> NewSet(state.internalLinks),
                        externalLinksSet |-> NewSet(state.externalLinks),
                        totalIndexablePages |-> 0], action.payload)
       IN  [internalLinks |-> acc.internalLinksSet, externalLinks |-> acc.externalLinksSet,
            totalIndexablePages |-> acc.totalIndexablePages, isProcessing |-> action.payload # <<>>]
  ELSE state

reducerIncremental(state, action) ==
  IF action.type = "UPDATE_DATA"
  THEN LET acc == Loop([internalLinksSet |-> NewSet(state.internalLinks),
                        externalLinksSet |-> NewSet(state.externalLinks),
                        totalIndexablePages |-> state.totalIndexablePages], action.payload)
       IN  [internalLinks |-> acc.internalLinksSet, externalLinks |-> acc.externalLinksSet,
            totalIndexablePages |-> acc.totalIndexablePages, isProcessing |-> FALSE]
  ELSE state

reducer(state, action) ==
  IF action.type = "UPDATE_DATA"
  THEN LET acc == Loop([internalLinksSet |-> NewSet(state.internalLinks),
                        externalLinksSet |-> NewSet(state.externalLinks),
                        totalIndexablePages |-> 0], action.payload)
       IN  [internalLinks |-> acc.internalLinksSet, externalLinks |-> acc.externalLinksSet,
            totalIndexablePages |-> acc.totalIndexablePages, isProcessing |-> FALSE]
  ELSE state

\* ---------------------------------------------------------------- component
VARIABLES
  phase,            \* "init" (not yet mounted), "mounted", "unmounted"
  crawlData,        \* the store's crawlData: None (null) or Some(snapshot)
  aggState,         \* the useReducer state
  debounced,        \* the lodash debounced function: timer, its age, last arguments
  summary,          \* the store's summary: last value passed to setSummary
  sinceSignal,      \* time since the trigger effect last ran (history)
  foldsSinceSignal, \* UPDATE_DATA dispatches since the trigger effect last ran (history)
  lastPayload,      \* payload of the last UPDATE_DATA dispatched (history)
  burst,            \* trigger effect runs since the fold before the last one (history)
  lastCommit,       \* what caused the last React commit (history)
  published,        \* whether the last commit called setSummary (history)
  nSignals,         \* number of store changes so far (history)
  foldedInternal,   \* every internal link of every payload folded so far (history)
  foldedExternal,   \* every external link of every payload folded so far (history)
  hasMounted,       \* chat: the load effect has run
  messages,         \* chat: the messages state
  input,            \* chat: the input state
  localStorage,     \* chat: the chat_messages entry of local storage
  requests,         \* chat: the handleSubmit calls so far, each with its closure
  cleared           \* chat: clearChatHistory has run (history)

summaryVars == <<phase, crawlData, aggState, debounced, summary, sinceSignal, foldsSinceSignal, lastPayload, burst, lastCommit, published, nSignals, foldedInternal, foldedExternal>>

chatVars == <<hasMounted, messages, input, localStorage, requests, cleared>>

vars == <<summaryVars, chatVars>>

\* the links a payload holds, read off the records' fields (for the history
\* variables foldedInternal and foldedExternal)
RecordLinks(item, side) ==
  IF /\ IsSome(item)
     /\ IsSome(Get(item).anchor_links)
     /\ IsSome(Get(Get(item).anchor_links)[side])
     /\ IsSome(Get(Get(Get(item).anchor_links)[side]).links)
  THEN { Get(Get(Get(Get(item).anchor_links)[side]).links)[i] :
           i \in 1..Len(Get(Get(Get(Get(item).anchor_links)[side]).links)) }
  ELSE {}

PayloadLinks(payload, side) == UNION { RecordLinks(payload[i], side) : i \in 1..Len(payload) }

\* const stableCrawlData = useMemo(() => crawlData || [], [crawlData])
stableCrawlData(cd) == IF IsSome(cd) THEN Get(cd) ELSE <<>>

Max(a, b) == IF a > b THEN a ELSE b

SummaryViewClamped(st, data) ==
  [totaPagesCrawled |-> Len(data),
   totalInternalLinks |-> Len(st.internalLinks),
   totalExternalLinks |-> Len(st.externalLinks),
   totalLinksFound |-> Len(st.internalLinks) + Len(st.externalLinks),
   notIndexablePages |-> Max(0, Len(data) - st.totalIndexablePages),
   indexablePages |-> st.totalIndexablePages]

SummaryViewDistinctTotal(st, data) ==
  [totaPagesCrawled |-> Len(data),
   totalInternalLinks |-> Len(st.internalLinks),
   totalExternalLinks |-> Len(st.externalLinks),
   totalLinksFound |-> Len(AddAll(st.internalLinks, st.externalLinks)),
   notIndexablePages |-> Len(data) - st.totalIndexablePages,
   indexablePages |-> st.totalIndexablePages]

\* the object passed to setSummary
SummaryView(st, data) ==
  [totaPagesCrawled |-> Len(data),
   totalInternalLinks |-> Len(st.internalLinks),
   totalExternalLinks |-> Len(st.externalLinks),
   totalLinksFound |-> Len(st.internalLinks) + Len(st.externalLinks),
   notIndexablePages |-> Len(data) - st.totalIndexablePages,
   indexablePages |-> st.totalIndexablePages]

\* `${((part / whole) * 100).toFixed(0)}%`: a JavaScript division never
\* throws; by zero it yields NaN or an infinity, which toFixed prints as such.
\* toFixed(0) rounds to the nearest integer, halves away from zero.
Finite(n) == [kind |-> "finite", val |-> n]
NotFinite(k) == [kind |-> k, val |-> 0]

RoundDiv(n, d) == (2 * n + d) \div (2 * d)

PercentFixed0(part, whole) ==
  IF whole = 0
  THEN IF part = 0 THEN NotFinite("NaN")
       ELSE IF part > 0 THEN NotFinite("Infinity") ELSE NotFinite("-Infinity")
  ELSE IF part >= 0 THEN Finite(RoundDiv(part * 100, whole))
       ELSE Finite(0 - RoundDiv((0 - part) * 100, whole))

\* percentage of the two link rows: guarded by the total number of links
LinkPercentage(part, st) ==
  IF Len(st.internalLinks) + Len(st.externalLinks) # 0
  THEN PercentFixed0(part, Len(st.internalLinks) + Len(st.externalLinks))
  ELSE Finite(0)

\* percentage of the two page rows: guarded by totalPagesCrawled
PagePercentageGuardsPart(part, totalPagesCrawled) ==
  IF part # 0 THEN PercentFixed0(part, totalPagesCrawled) ELSE Finite(0)

PagePercentage(part, totalPagesCrawled) ==
  IF totalPagesCrawled # 0 THEN PercentFixed0(part, totalPagesCrawled) ELSE Finite(0)

\* the rows the component renders
summaryData(st, data) ==
  LET totalPagesCrawled == Len(data)
      totalNotIndexablePages == Len(data) - st.totalIndexablePages
  IN  << [label |-> "Pages crawled", value |-> totalPagesCrawled, percentage |-> Finite(100)],
         [label |-> "Total Links Found", value |-> Len(st.internalLinks) + Len(st.externalLinks), percentage |-> Finite(100)],
         [label |-> "Total Internal Links", value |-> Len(st.internalLinks), percentage |-> LinkPercentage(Len(st.internalLinks), st)],
         [label |-> "Total External Links", value |-> Len(st.externalLinks), percentage |-> LinkPercentage(Len(st.externalLinks), st)],
         [label |-> "Total Indexable Pages", value |-> st.totalIndexablePages, percentage |-> PagePercentage(st.totalIndexablePages, totalPagesCrawled)],
         [label |-> "Total Not Indexable Pages", value |-> totalNotIndexablePages, percentage |-> PagePercentage(totalNotIndexablePages, totalPagesCrawled)] >>

\* the publish effect: what the store's summary is after it ran
PublishEffect(old, st, data) == IF ~st.isProcessing THEN Some(SummaryView(st, data)) ELSE old
Publishes(st) == ~st.isProcessing

\* lodash debounce(fn, 300): trailing edge only
idleDebounced == [timerId |-> FALSE, age |-> 0, lastArgs |-> None]
cancel(d) == idleDebounced
debouncedUpdateLeading(d, data) == [timerId |-> TRUE, age |-> wait, lastArgs |-> Some(data)]
debouncedUpdate(d, data) == [timerId |-> TRUE, age |-> 0, lastArgs |-> Some(data)]

\* the trigger effect re-running: cleanup of the previous run, then the body
TriggerEffectStale(d, data) == IF d.timerId THEN d ELSE debouncedUpdate(d, data)
TriggerEffectCancelLast(d, data) == cancel(debouncedUpdate(d, data))
TriggerEffect(d, data) == debouncedUpdate(cancel(d), data)

\* the trigger effect's cleanup at unmount
UnmountKeepsTimer(d) == d
UnmountCleanup(d) == cancel(d)

\* the chat component not in use
absentEntry == [kind |-> "absent", val |-> <<>>]

ChatIdle ==
  /\ hasMounted = FALSE
  /\ messages = <<>>
  /\ input = ""
  /\ localStorage = absentEntry
  /\ requests = <<>>
  /\ cleared = FALSE

\* the Summary component before its first render, over a store of stores
SummaryStart(stores) ==
  /\ phase = "init"
  /\ crawlData \in stores
  /\ aggState = initialState
  /\ debounced = idleDebounced
  /\ summary = None
  /\ sinceSignal = 0
  /\ foldsSinceSignal = 0
  /\ lastPayload = None
  /\ burst = 0
  /\ lastCommit = "none"
  /\ published = FALSE
  /\ nSignals = 0
  /\ foldedInternal = {}
  /\ foldedExternal = {}

Init == SummaryStart(Stores) /\ ChatIdle

\* first render and first run of both effects
Mount ==
  /\ phase = "init"
  /\ phase' = "mounted"
  /\ summary' = PublishEffect(summary, aggState, stableCrawlData(crawlData))
  /\ published' = Publishes(aggState)
  /\ lastCommit' = "mount"
  /\ debounced' = debouncedUpdate(debounced, stableCrawlData(crawlData))
  /\ sinceSignal' = 0
  /\ foldsSinceSignal' = 0
  /\ burst' = 1
  /\ UNCHANGED <<crawlData, aggState, lastPayload, nSignals, foldedInternal, foldedExternal, chatVars>>

\* the store's crawlData becomes new; a mounted Summary re-renders and both
\* effects re-run because stableCrawlData changed
StoreChanged(new) ==
  /\ phase # "init"
  /\ nSignals < MaxSignals
  /\ ~(new = None /\ crawlData = None)
  /\ crawlData' = new
  /\ nSignals' = nSignals + 1
  /\ IF phase = "mounted"
     THEN /\ summary' = PublishEffect(summary, aggState, stableCrawlData(new))
          /\ published' = Publishes(aggState)
          /\ lastCommit' = "storeChange"
          /\ debounced' = TriggerEffect(debounced, stableCrawlData(new))
          /\ sinceSignal' = 0
          /\ foldsSinceSignal' = 0
          /\ burst' = IF foldsSinceSignal > 0 THEN 1 ELSE burst + 1
     ELSE UNCHANGED <<summary, published, lastCommit, debounced, sinceSignal, foldsSinceSignal, burst>>
  /\ UNCHANGED <<phase, aggState, lastPayload, foldedInternal, foldedExternal, chatVars>>

AppendFrom(pool) ==
  \E item \in pool :
    /\ Len(stableCrawlData(crawlData)) < MaxLen
    /\ StoreChanged(Some(Append(stableCrawlData(crawlData), item)))

ReplaceFrom(stores) ==
  \E new \in stores : StoreChanged(new)

AppendRecord == AppendFrom(ItemPool)

ReplaceSnapshot == ReplaceFrom(Stores)

\* time passes while the timer is pending
Tick ==
  /\ debounced.timerId
  /\ debounced.age < wait
  /\ debounced' = [debounced EXCEPT !.age = Min(debounced.age + TickStep, wait)]
  /\ sinceSignal' = Min(sinceSignal + TickStep, wait)
  /\ UNCHANGED <<phase, crawlData, aggState, summary, foldsSinceSignal, lastPayload, burst, lastCommit, published, nSignals, foldedInternal, foldedExternal, chatVars>>

\* the timer expires: dispatch({type: "UPDATE_DATA", payload: data}), then the
\* re-render and the publish effect (the reducer returned a new state object)
Fire ==
  /\ debounced.timerId
  /\ debounced.age >= wait
  /\ LET payload == Get(debounced.lastArgs)
         st == reducer(aggState, UpdateData(payload))
     IN  /\ aggState' = st
         /\ lastPayload' = Some(payload)
         /\ IF phase = "mounted"
            THEN /\ summary' = PublishEffect(summary, st, stableCrawlData(crawlData))
                 /\ published' = Publishes(st)
                 /\ lastCommit' = "fold"
            ELSE UNCHANGED <<summary, published, lastCommit>>
  /\ debounced' = idleDebounced
  /\ foldsSinceSignal' = foldsSinceSignal + 1
  /\ foldedInternal' = foldedInternal \cup PayloadLinks(Get(debounced.lastArgs), "internal")
  /\ foldedExternal' = foldedExternal \cup PayloadLinks(Get(debounced.lastArgs), "external")
  /\ UNCHANGED <<phase, crawlData, sinceSignal, burst, nSignals, chatVars>>

Unmount ==
  /\ phase = "mounted"
  /\ phase' = "unmounted"
  /\ debounced' = UnmountCleanup(debounced)
  /\ lastCommit' = "unmount"
  /\ published' = FALSE
  /\ UNCHANGED <<crawlData, aggState, summary, sinceSignal, foldsSinceSignal, lastPayload, burst, nSignals, foldedInternal, foldedExternal, chatVars>>

Next == Mount \/ AppendRecord \/ ReplaceSnapshot \/ Tick \/ Fire \/ Unmount

Spec == Init /\ [][Next]_vars

\* The same component over a one-record pool, with the event loop's
\* guarantee that time passes and that a timer that is due fires.
FairPool ==
  { Item(Links(Some(<<"/a">>)), Links(Some(<<"/c">>)), Score(Some(Half + 1))) }

FairStores == { None } \cup { Some(s) : s \in SeqsUpTo(FairPool, MaxLen) }

FairInit == Init /\ crawlData \in FairStores

FairAppendRecord == AppendFrom(FairPool)

FairReplaceSnapshot == ReplaceFrom(FairStores)

FairNext == Mount \/ FairAppendRecord \/ FairReplaceSnapshot \/ Tick \/ Fire \/ Unmount

FairSpec == FairInit /\ [][FairNext]_vars /\ WF_vars(Tick) /\ WF_vars(Fire)

\* The same component over a store that mixes a null record with a complete
\* one (noisy crawl data).
NoisyPool ==
  { None,
    Item(Links(Some(<<"/a", "/b">>)), Links(Some(<<"/c">>)), Score(Some(Half + 1))) }

NoisyStores == { None } \cup { Some(s) : s \in SeqsUpTo(NoisyPool, MaxLen) }

NoisyInit == SummaryStart(NoisyStores) /\ ChatIdle

NoisyAppendRecord == AppendFrom(NoisyPool)

NoisyReplaceSnapshot == ReplaceFrom(NoisyStores)

NoisyNext == Mount \/ NoisyAppendRecord \/ NoisyReplaceSnapshot \/ Tick \/ Fire \/ Unmount

NoisySpec == NoisyInit /\ [][NoisyNext]_vars

\* ------------------------------------------------------------ chat component
\* (src/unnamed/part_000, AIcontainer).  A message's id, Date.now() in the
\* code, is the number of the handleSubmit call it belongs to.  The stored
\* entry is the array itself: JSON.stringify followed by JSON.parse returns an
\* equal array of {id, role, content} objects.

Texts == { "", "  ", "hi" }

\* input.trim()
Trim(text) == IF text = "  " THEN "" ELSE text

Message(id, role, content) == [id |-> id, role |-> role, content |-> content]

arrayEntry(msgs) == [kind |-> "array", val |-> msgs]

\* what local storage may hold when the component mounts: nothing, an array
\* saved earlier, JSON that is not an array, or text that does not parse
StoredEntries ==
  { absentEntry,
    arrayEntry(<<Message(0, "user", "old"), Message(0, "assistant", "old")>>),
    [kind |-> "notArray", val |-> <<>>],
    [kind |-> "invalid", val |-> <<>>] }

ChatStart ==
  /\ hasMounted = FALSE
  /\ messages = <<>>
  /\ input = ""
  /\ localStorage \in StoredEntries
  /\ requests = <<>>
  /\ cleared = FALSE

\* the load effect: loadMessages(); setHasMounted(true)
ChatMount ==
  /\ ~hasMounted
  /\ hasMounted' = TRUE
  /\ messages' = IF localStorage.kind = "array" THEN localStorage.val ELSE messages
  /\ UNCHANGED <<input, localStorage, requests, cleared, summaryVars>>

\* onChange={(e) => setInput(e.target.value)}
SetInput ==
  \E text \in Texts :
    /\ hasMounted
    /\ text # input
    /\ input' = text
    /\ UNCHANGED <<hasMounted, messages, localStorage, requests, cleared, summaryVars>>

\* handleSubmit up to the await: the closure keeps updatedMessages
HandleSubmit ==
  /\ hasMounted
  /\ Len(requests) < MaxSubmits
  /\ Trim(input) # ""
  /\ LET userMessage == Message(Len(requests) + 1, "user", input)
         updatedMessages == Append(messages, userMessage)
     IN  /\ messages' = updatedMessages
         /\ requests' = Append(requests, [prompt |-> input, updatedMessages |-> updatedMessages,
                                          status |-> "pending", beforeClear |-> FALSE])
  /\ input' = ""
  /\ UNCHANGED <<hasMounted, localStorage, cleared, summaryVars>>

\* the continuation after invoke("ask_rusty_command") resolved; setItem may
\* throw (quota), which is caught
ResolveFrom(base, i, saved) ==
  LET assistantMessage == Message(i, "assistant", requests[i].prompt)
      updatedMessages == Append(base, assistantMessage)
  IN  /\ messages' = updatedMessages
      /\ localStorage' = IF saved THEN arrayEntry(updatedMessages) ELSE localStorage
      /\ requests' = [requests EXCEPT ![i].status = "resolved"]
      /\ UNCHANGED <<hasMounted, input, cleared, summaryVars>>

Respond ==
  \E i \in 1..Len(requests), saved \in BOOLEAN :
    /\ requests[i].status = "pending"
    /\ ResolveFrom(requests[i].updatedMessages, i, saved)

\* invoke rejected: the catch block only reports the error
Reject ==
  \E i \in 1..Len(requests) :
    /\ requests[i].status = "pending"
    /\ requests' = [requests EXCEPT ![i].status = "rejected"]
    /\ UNCHANGED <<hasMounted, messages, input, localStorage, cleared, summaryVars>>

\* the "Clear chat history" button, rendered while there are messages
ClearChatHistoryResetsSummary ==
  /\ hasMounted
  /\ Len(messages) > 0
  /\ localStorage' = absentEntry
  /\ messages' = <<>>
  /\ cleared' = TRUE
  /\ requests' = [i \in 1..Len(requests) |-> [requests[i] EXCEPT !.beforeClear = TRUE]]
  /\ aggState' = initialState
  /\ summary' = Some(SummaryView(initialState, <<>>))
  /\ UNCHANGED <<hasMounted, input, phase, crawlData, debounced, sinceSignal, foldsSinceSignal, lastPayload, burst, lastCommit, published, nSignals, foldedInternal, foldedExternal>>

ClearChatHistory ==
  /\ hasMounted
  /\ Len(messages) > 0
  /\ localStorage' = absentEntry
  /\ messages' = <<>>
  /\ cleared' = TRUE
  /\ requests' = [i \in 1..Len(requests) |-> [requests[i] EXCEPT !.beforeClear = TRUE]]
  /\ UNCHANGED <<hasMounted, input, summaryVars>>

ChatInit == SummaryStart({ None }) /\ ChatStart

ChatNext == ChatMount \/ SetInput \/ HandleSubmit \/ Respond \/ Reject \/ ClearChatHistory

ChatSpec == ChatInit /\ [][ChatNext]_vars

\* Summary (over the one-record pool) and the chat's clear button in one page
ClearInit == SummaryStart(FairStores) /\ ChatStart

ClearNext ==
  Mount \/ FairAppendRecord \/ FairReplaceSnapshot \/ Tick \/ Fire \/ Unmount \/ ChatMount \/ ClearChatHistory

ClearSpec == ClearInit /\ [][ClearNext]_vars

TypeOK ==
  /\ phase \in {"init", "mounted", "unmounted"}
  /\ crawlData \in Stores \cup FairStores \cup NoisyStores
  /\ hasMounted \in BOOLEAN
  /\ Len(requests) <= MaxSubmits
  /\ debounced.age \in 0..wait
  /\ nSignals \in 0..MaxSignals
\* ------------------------------------------------------------------ claims

\* records of data whose indexability score is present and above 0.5
HasScoreAboveHalf(item) ==
  /\ IsSome(item)
  /\ IsSome(Get(item).indexability)
  /\ IsSome(Get(Get(item).indexability).indexability)
  /\ Get(Get(Get(item).indexability).indexability) > Half

NumIndexableIn(data) == Cardinality({ i \in 1..Len(data) : HasScoreAboveHalf(data[i]) })

\* all ways to cut a sequence into consecutive non-empty batches (the empty
\* sequence is one empty batch)
RECURSIVE Cuts(_)
Cuts(s) ==
  IF Len(s) = 0 THEN { <<>> }
  ELSE UNION { { <<SubSeq(s, 1, k)>> \o rest : rest \in Cuts(SubSeq(s, k + 1, Len(s))) } : k \in 1..Len(s) }

Batchings(s) == IF Len(s) = 0 THEN { << <<>> >> } ELSE Cuts(s)

RECURSIVE FoldBatches(_, _)
FoldBatches(st, batches) ==
  IF batches = <<>> THEN st
  ELSE FoldBatches(reducer(st, UpdateData(Head(batches))), Tail(batches))

FoldOnce(st, data) == reducer(st, UpdateData(data))

\* C1: every view passed to setSummary reports, as indexablePages, the number
\* of records with indexability > 0.5 of the very snapshot whose length it
\* reports as totaPagesCrawled (while mounted that snapshot is the store's
\* current one, as every store change publishes).
C1_ViewFromCompletedFold ==
  (phase = "mounted" /\ IsSome(summary)) =>
    /\ Get(summary).totaPagesCrawled = Len(stableCrawlData(crawlData))
    /\ Get(summary).indexablePages = NumIndexableIn(stableCrawlData(crawlData))

\* C2: every field of every published SummaryView is a non-negative integer.
C2_ViewFieldsNonNegative ==
  IsSome(summary) =>
    /\ Get(summary).totaPagesCrawled \in Nat
    /\ Get(summary).totalInternalLinks \in Nat
    /\ Get(summary).totalExternalLinks \in Nat
    /\ Get(summary).totalLinksFound \in Nat
    /\ Get(summary).notIndexablePages \in Nat
    /\ Get(summary).indexablePages \in Nat

\* C3: setSummary is called exactly once per completed fold: a commit calls
\* setSummary if and only if it is the commit of an UPDATE_DATA reduction, and
\* never with isProcessing true.
C3_PublishedOncePerFold ==
  /\ published <=> lastCommit = "fold"
  /\ published => ~aggState.isProcessing

\* C4: trailing-edge debounce. A pending fold is always the one scheduled by
\* the latest signal (an earlier one was cancelled and rescheduled), no fold
\* runs before a full window of silence since the latest signal, and at most
\* one fold runs per burst.
C4_TrailingDebounce ==
  /\ (phase = "mounted" /\ debounced.timerId) =>
        /\ debounced.age = sinceSignal
        /\ foldsSinceSignal = 0
  /\ foldsSinceSignal > 0 => sinceSignal >= wait
  /\ foldsSinceSignal <= 1

C4_Witness ==
  /\ phase = "mounted"
  /\ burst >= 3
  /\ foldsSinceSignal = 1
  /\ sinceSignal = wait

\* C5: once signals have stopped (their number is bounded) and the component
\* stays mounted, the run ends up for good with no fold pending, exactly one
\* fold run since the last signal, and that fold's payload the final snapshot.
C5_FinalFoldRuns ==
  <>[](phase = "mounted" =>
         /\ ~debounced.timerId
         /\ foldsSinceSignal = 1
         /\ lastPayload = Some(stableCrawlData(crawlData)))

C5_Witness ==
  /\ phase = "mounted"
  /\ nSignals >= 1
  /\ ~debounced.timerId
  /\ foldsSinceSignal = 1
  /\ Len(stableCrawlData(crawlData)) > 0
  /\ lastPayload = Some(stableCrawlData(crawlData))

\* C6: whenever UPDATE_DATA is dispatched, its payload is the store's latest
\* snapshot.
C6_PayloadIsLatest ==
  [][foldsSinceSignal' > foldsSinceSignal => lastPayload' = Some(stableCrawlData(crawlData'))]_vars

C6_Witness ==
  /\ phase = "mounted"
  /\ burst >= 2
  /\ foldsSinceSignal = 1
  /\ Len(stableCrawlData(crawlData)) > 0
  /\ lastPayload = Some(stableCrawlData(crawlData))

\* C7: from the unmount on, no UPDATE_DATA is dispatched and the aggregation
\* state does not change.
C7_NoFoldAfterUnmount ==
  [][phase' = "unmounted" =>
       /\ foldsSinceSignal' = foldsSinceSignal
       /\ lastPayload' = lastPayload
       /\ aggState' = aggState
       /\ ~debounced'.timerId]_vars

\* a fold was pending when the component unmounted, and the store changed again
C7_Witness ==
  /\ phase = "unmounted"
  /\ foldsSinceSignal = 0
  /\ sinceSignal > 0
  /\ nSignals = MaxSignals
  /\ aggState # FoldOnce(aggState, stableCrawlData(crawlData))

\* C8: after a fold, and until the snapshot changes again, totalIndexablePages
\* is the number of records of the whole current snapshot whose score is
\* strictly above 0.5 (absent counts as 0).
C8_IndexableCountOfSnapshot ==
  (phase = "mounted" /\ foldsSinceSignal > 0) =>
    aggState.totalIndexablePages = NumIndexableIn(stableCrawlData(crawlData))

\* the snapshot holds a record scored exactly 0.5 and one scored 0.5001
C8_Witness ==
  /\ phase = "mounted"
  /\ foldsSinceSignal > 0
  /\ aggState.totalIndexablePages = 1
  /\ \E i, j \in 1..Len(stableCrawlData(crawlData)) :
        /\ IndexabilityOf(stableCrawlData(crawlData)[i]) = Some(Half)
        /\ IndexabilityOf(stableCrawlData(crawlData)[j]) = Some(Half + 1)

\* C9 (as stated): folding the snapshot in one batch and folding it cut into
\* any consecutive batches give the same state, indexable count included.
C9_BatchingSameState ==
  \A batches \in Batchings(stableCrawlData(crawlData)) :
    FoldBatches(aggState, batches) = FoldOnce(aggState, stableCrawlData(crawlData))

\* C9 (amended): both give the same link arrays; the indexable count after
\* the batches is that of the last batch alone.
C9_BatchingSameLinks ==
  \A batches \in Batchings(stableCrawlData(crawlData)) :
    LET split == FoldBatches(aggState, batches)
        whole == FoldOnce(aggState, stableCrawlData(crawlData))
    IN  /\ split.internalLinks = whole.internalLinks
        /\ split.externalLinks = whole.externalLinks
        /\ split.totalIndexablePages = NumIndexableIn(batches[Len(batches)])
        /\ whole.totalIndexablePages = NumIndexableIn(stableCrawlData(crawlData))

C9_Witness ==
  \E batches \in Batchings(stableCrawlData(crawlData)) :
    /\ Len(batches) >= 2
    /\ aggState.internalLinks # <<>>
    /\ FoldOnce(aggState, batches[1]).externalLinks # aggState.externalLinks
    /\ FoldBatches(aggState, batches).totalIndexablePages
         # FoldOnce(aggState, stableCrawlData(crawlData)).totalIndexablePages

\* C10 (as stated): UPDATE_DATA with an empty payload returns a state equal
\* to the state it was applied to.
C10_EmptyFoldIsIdentity ==
  FoldOnce(aggState, <<>>) = aggState

\* C10 (amended): UPDATE_DATA with an empty payload keeps both link arrays
\* and sets totalIndexablePages to 0; applying it twice is the same as once.
C10_EmptyFoldKeepsLinks ==
  /\ FoldOnce(aggState, <<>>).internalLinks = aggState.internalLinks
  /\ FoldOnce(aggState, <<>>).externalLinks = aggState.externalLinks
  /\ FoldOnce(aggState, <<>>).totalIndexablePages = 0
  /\ FoldOnce(FoldOnce(aggState, <<>>), <<>>) = FoldOnce(aggState, <<>>)

C10_Witness ==
  /\ aggState.totalIndexablePages > 0
  /\ aggState.internalLinks # <<>>
  /\ aggState.externalLinks # <<>>

\* ---------------------------------------------------------- claims C11..C20

Elems(seq) == { seq[i] : i \in 1..Len(seq) }

\* C12: no step makes a link array shorter or drops a URL from it, whatever
\* snapshot is folded (a shorter or an empty one included).
C12_LinkSetsNeverShrink ==
  [][/\ Len(aggState'.internalLinks) >= Len(aggState.internalLinks)
     /\ Len(aggState'.externalLinks) >= Len(aggState.externalLinks)
     /\ Elems(aggState.internalLinks) \subseteq Elems(aggState'.internalLinks)
     /\ Elems(aggState.externalLinks) \subseteq Elems(aggState'.externalLinks)]_vars

\* links were folded, then the snapshot was replaced by an empty one and folded
C12_Witness ==
  /\ lastCommit = "fold"
  /\ lastPayload = Some(<<>>)
  /\ aggState.internalLinks # <<>>
  /\ aggState.externalLinks # <<>>

\* C14: in every published view indexablePages + notIndexablePages is the
\* published totaPagesCrawled.
C14_PagesAddUp ==
  IsSome(summary) =>
    Get(summary).indexablePages + Get(summary).notIndexablePages = Get(summary).totaPagesCrawled

C14_Witness ==
  /\ IsSome(summary)
  /\ Get(summary).indexablePages > 0
  /\ Get(summary).notIndexablePages # 0
  /\ Get(summary).totaPagesCrawled > 0

\* C15: in every published view totalLinksFound is
\* totalInternalLinks + totalExternalLinks.
C15_LinksAddUp ==
  IsSome(summary) =>
    Get(summary).totalLinksFound = Get(summary).totalInternalLinks + Get(summary).totalExternalLinks

C15_Witness ==
  /\ IsSome(summary)
  /\ Get(summary).totalInternalLinks > 0
  /\ Get(summary).totalExternalLinks > 0

\* C17: with no link at all both link percentages are "0%", with no page
\* crawled both page percentages are "0%", and no rendered percentage is the
\* result of a division by zero (NaN or an infinity).
C17_ZeroDenominator ==
  LET rows == summaryData(aggState, stableCrawlData(crawlData))
  IN  /\ (Len(aggState.internalLinks) + Len(aggState.externalLinks) = 0) =>
            (rows[3].percentage = Finite(0) /\ rows[4].percentage = Finite(0))
      /\ (Len(stableCrawlData(crawlData)) = 0) =>
            (rows[5].percentage = Finite(0) /\ rows[6].percentage = Finite(0))
      /\ \A i \in 1..Len(rows) : rows[i].percentage.kind = "finite"

\* no page in the store while the state still counts indexable pages
C17_Witness ==
  /\ phase = "mounted"
  /\ Len(stableCrawlData(crawlData)) = 0
  /\ aggState.totalIndexablePages > 0
  /\ summaryData(aggState, stableCrawlData(crawlData))[5].percentage = Finite(0)

\* C20: isProcessing is false in every reachable state, and every commit of
\* the mounted component (mount, store change, fold) calls setSummary.
C20_NeverProcessing ==
  /\ ~aggState.isProcessing
  /\ lastCommit \in {"mount", "storeChange", "fold"} => published

C20_Witness ==
  /\ lastCommit = "fold"
  /\ published
  /\ lastPayload # Some(<<>>)
  /\ ~aggState.isProcessing

\* records that are null or lack anchor_links, internal, external, links or
\* the indexability score
MalformedItems ==
  { None,
    Some([anchor_links |-> None, indexability |-> None]),
    Item(None, None, None),
    Item(Links(None), None, Score(None)),
    Item(None, Links(None), Score(None)),
    Item(Links(None), Links(None), Score(None)) }

InsertAt(seq, k, x) == SubSeq(seq, 1, k) \o <<x>> \o SubSeq(seq, k + 1, Len(seq))

\* C16: a malformed record placed anywhere in a batch changes nothing: the
\* fold returns the state it returns without that record, so the record adds
\* no link, is not counted indexable, and the records before and after it are
\* all processed.
C16_MalformedContributeNothing ==
  \A item \in MalformedItems :
    \A k \in 0..Len(stableCrawlData(crawlData)) :
      LET with == FoldOnce(aggState, InsertAt(stableCrawlData(crawlData), k, item))
      IN  /\ with = FoldOnce(aggState, stableCrawlData(crawlData))
          /\ DOMAIN with = {"internalLinks", "externalLinks", "totalIndexablePages", "isProcessing"}
          /\ with.totalIndexablePages = NumIndexableIn(stableCrawlData(crawlData))

\* a fold has run over a null record followed by a record with links and score
C16_Witness ==
  /\ lastCommit = "fold"
  /\ Len(stableCrawlData(crawlData)) = 2
  /\ stableCrawlData(crawlData)[1] = None
  /\ aggState.internalLinks = <<"/a", "/b">>
  /\ IsSome(ExternalLinksOf(stableCrawlData(crawlData)[2]))
  /\ lastPayload = Some(stableCrawlData(crawlData))
  /\ aggState.externalLinks # <<>>
  /\ aggState.totalIndexablePages = 1

\* C13: the link arrays hold exactly the links of all records of all payloads
\* folded since the empty state, each URL once.
C13_UnionWithoutDuplicates ==
  /\ Elems(aggState.internalLinks) = foldedInternal
  /\ Elems(aggState.externalLinks) = foldedExternal
  /\ Len(aggState.internalLinks) = Cardinality(foldedInternal)
  /\ Len(aggState.externalLinks) = Cardinality(foldedExternal)

\* a URL occurred twice in a record, in two records of a payload and in two folds
C13_Witness ==
  /\ lastCommit = "fold"
  /\ nSignals >= 1
  /\ Len(stableCrawlData(crawlData)) = 2
  /\ lastPayload = Some(stableCrawlData(crawlData))
  /\ \A i \in 1..2 : "/c" \in RecordLinks(stableCrawlData(crawlData)[i], "external")
  /\ \E i \in 1..2 : Len(Get(ExternalLinksOf(stableCrawlData(crawlData)[i]))) > Cardinality(RecordLinks(stableCrawlData(crawlData)[i], "external"))
  /\ Len(aggState.externalLinks) = 2
  /\ aggState.internalLinks # <<>>

\* a step of clearChatHistory: the only step that empties a non-empty chat
ClearStep == messages # <<>> /\ messages' = <<>>

C18_NoMessageLost ==
  (requests # <<>> /\ ~cleared /\ \A i \in 1..Len(requests) : requests[i].status = "resolved") =>
    \A i \in 1..Len(requests) :
      /\ Message(i, "user", requests[i].prompt) \in Elems(messages)
      /\ Message(i, "assistant", requests[i].prompt) \in Elems(messages)

\* C19: a message submitted before clearChatHistory is, from the clear on,
\* neither in messages nor in the stored entry.
C19_ClearIsEffective ==
  \A i \in 1..Len(requests) :
    requests[i].beforeClear =>
      /\ Message(i, "user", requests[i].prompt) \notin Elems(messages)
      /\ Message(i, "user", requests[i].prompt) \notin Elems(localStorage.val)
====
